---- MODULE Spec2Model ----
(***************************************************************************)
(* Model of src/app/FaultyTerminalWithLogo.tsx: the LogoLoop ticker, the   *)
(* FaultyTerminalWithLogo shader effect, and its fragment shader's         *)
(* pointer term.                                                           *)
(*                                                                         *)
(* Numbers.  JavaScript numbers are doubles; the model uses fixed point:   *)
(*   time          milliseconds (requestAnimationFrame timestamps)         *)
(*   lengths       1/Sub pixel   (offset, measured sequence width)         *)
(*   velocities    1/Sub pixel per second                                  *)
(*   factors       1/FP          (easing factor, exp)                      *)
(*   iTime         1/10000 s     (milliseconds times timeScale in tenths)  *)
(*   progress      1/AnimationDuration (0 .. AnimationDuration is 0 .. 1)  *)
(*                                                                         *)
(* Scheduling.  Everything runs on one thread of callbacks.  A frame       *)
(* callback is one action; it receives the timestamp now' = now + d, so    *)
(* the host clock only moves with the frames that read it.  A render that  *)
(* changes an effect's dependencies (SetProps, ResizeObserved) and the     *)
(* re-run of that effect (Restart: cleanup, then body) are two actions,    *)
(* because React flushes passive effects after the commit and a frame      *)
(* callback of the previous closure may run in between.                    *)
(*                                                                         *)
(* The two components keep no common state; a run mounts one of them       *)
(* (focus), or evaluates the fragment shader's digit() once for one cell   *)
(* and one table of uniforms, and Spec is the union of the three.          *)
(*                                                                         *)
(* Host events.  Prop changes, pointer moves, interval ticks, changes of   *)
(* the container's size, resize notifications, image loads, failed decodes *)
(* and the unmount are events of the host; a run of the shader effect      *)
(* takes at most MaxEvents of them, in any order and at any time between   *)
(* the frames.  An interval tick may come at any time while the interval   *)
(* is set: the 50 ms period has no counterpart in the model.  The code     *)
(* reads the size of the container when it measures it (resize(), the      *)
(* pointer handler); the ResizeObserver reports a new size later.          *)
(* A rasterization pass is one call of updateLogoTexture(); its image      *)
(* loads, or fails to decode, in a later step of its own, in any order     *)
(* with the images of other passes and also after the effect that started  *)
(* the pass was cleaned up.  At most MaxInflight images load at a time.    *)
(***************************************************************************)
EXTENDS Integers, FiniteSets, Sequences, TLC

\* ---------------------------------------------------------------- bounds
Sub == 1000
FP == 10000
ExpTerms == 10
SinTerms == 8
MountTime == 100
MaxTime == 2100
MaxShaderTime == 3100
MaxRaf == 6
MaxEvents == 2
MaxInflight == 2

Deltas == {250, 1250}
Speeds == {-120, 0, 80}
Directions == {"left", "right"}
ShaderDeltas == {500, 2000}
TimeScales == {3, 10}
Environments == {[timeOffset |-> 0, dpr |-> 1], [timeOffset |-> 5000, dpr |-> 2]}
ContainerWidths == {0, 500}
SequenceWidths == {0, (301 * Sub) \div 2, 200 * Sub}
ContainerSizes == {<<800, 600>>, <<400, 300>>}
LogoHeights == {32, -20}
PointerPositions == {<<0, 0>>, <<400, 150>>}
MouseStrengths == {0, FP \div 5}
Scales == {FP, 2 * FP}
Cells == {<<0, 0>>, <<FP \div 2, FP \div 3>>, <<FP, (2 * FP) \div 3>>}
Intensities == {-300, 5000}
PageLoadProgresses == {0, 600, 1200, 2000}
Pointers == {<<0, 0>>, <<FP \div 2, FP \div 3>>, <<(3 * FP) \div 4, FP>>}
ShaderTimes == {0, 1800, 31000}

NULL == -1

\* ------------------------------------------------------------- arithmetic
Abs(x) == IF x < 0 THEN -x ELSE x
Max(a, b) == IF a >= b THEN a ELSE b
Min(a, b) == IF a <= b THEN a ELSE b

\* Math.ceil(a / b) for a >= 0, b > 0
CeilDiv(a, b) == (a + b - 1) \div b

\* a / b rounded to the nearest unit (the rounding of the fixed-point model)
RoundDiv(a, b) ==
  IF a >= 0 THEN (2 * a + b) \div (2 * b) ELSE -((2 * (-a) + b) \div (2 * b))

\* JavaScript's % : the remainder takes the sign of the dividend
JsRem(a, b) == IF a >= 0 THEN a % b ELSE -((-a) % b)

\* a * f / FP, rounded, computed in two parts to stay within 32 bits
MulFP(a, f) ==
  LET m == Abs(a)
      p == (m \div FP) * f + RoundDiv((m % FP) * f, FP)
  IN  IF a >= 0 THEN p ELSE -p

\* ------------------------------------------------------ ANIMATION_CONFIG
SMOOTH_TAU == 250
MIN_COPIES == 2
COPY_HEADROOM == 2
MsPerSecond == 1000

\* Math.exp(-x) for 0 <= x <= 1 (x in 1/FP), by its series in Horner form
RECURSIVE ExpSeries(_, _)
ExpSeries(x, k) ==
  IF k > ExpTerms THEN FP ELSE FP - RoundDiv(x * ExpSeries(x, k + 1), k * FP)

\* Math.exp(-deltaTime / SMOOTH_TAU), deltaTime in ms, result in 1/FP
RECURSIVE ExpNeg(_)
ExpNeg(ms) ==
  IF ms >= SMOOTH_TAU
  THEN RoundDiv(ExpSeries(FP, 1) * ExpNeg(ms - SMOOTH_TAU), FP)
  ELSE ExpSeries(RoundDiv(ms * FP, SMOOTH_TAU), 1)

\* Math.exp(-x) for x >= 0 in 1/FP, result in 1/FP
RECURSIVE ExpMinus(_)
ExpMinus(x) ==
  IF x >= FP
  THEN RoundDiv(ExpSeries(FP, 1) * ExpMinus(x - FP), FP)
  ELSE ExpSeries(x, 1)

\* floor of the square root of n >= 0, searched between lo and hi
RECURSIVE SqrtBetween(_, _, _)
SqrtBetween(n, lo, hi) ==
  IF lo >= hi THEN lo
  ELSE LET mid == (lo + hi + 1) \div 2
       IN  IF mid * mid <= n THEN SqrtBetween(n, mid, hi)
           ELSE SqrtBetween(n, lo, mid - 1)

\* sqrt(n) for 0 <= n < 2^31
Sqrt(n) == SqrtBetween(n, 0, 46340)

Pi == 31416

\* sin(x) / x for x * x = x2 (1/FP), by its series in Horner form
RECURSIVE SinSeries(_, _)
SinSeries(x2, k) ==
  IF k > SinTerms THEN FP
  ELSE FP - RoundDiv(x2 * SinSeries(x2, k + 1), (2 * k) * (2 * k + 1) * FP)

\* sin(x), x in 1/FP radians, result in 1/FP: x is reduced to [-pi, pi)
Sin(x) ==
  LET r == ((x + Pi) % (2 * Pi)) - Pi
  IN  MulFP(r, SinSeries(MulFP(r, r), 1))

\* ------------------------------------------------------------------ state
VARIABLES
  focus,            \* what this run is about: "ticker", "shader", or "digit"
                    \* for one evaluation of the fragment shader's digit()
  now,              \* host clock, ms (the timestamp the next frame callback gets)
  rafSeq,           \* last handle returned by requestAnimationFrame
  \* LogoLoop
  tMounted,         \* the LogoLoop is mounted
  speed, direction, \* props
  targetVelocity,   \* useMemo value of the latest render
  targetNegZero,    \* that value is -0 (Object.is tells it from 0)
  containerWidth,   \* containerRef.current.clientWidth, px
  sequenceWidth,    \* seqRef.current.getBoundingClientRect().width, 1/Sub px
  seqWidth,         \* useState, px
  copyCount,        \* useState
  tObserving,       \* the ResizeObserver is connected
  effTarget,        \* targetVelocity captured by the running animation effect
  effNegZero,       \* the captured targetVelocity is -0
  effSeqWidth,      \* seqWidth captured by the running animation effect
  tRaf,             \* pending animate callbacks: [id, seqWidth, target]
  tRafRef,          \* rafRef.current (NULL for null)
  lastTimestamp,    \* lastTimestampRef.current (NULL for null)
  offset,           \* offsetRef.current
  velocity,         \* velocityRef.current
  transform,        \* translate3d x written to the track
  \* LogoLoop, history
  tMeasured,        \* <<containerWidth, sequenceWidth>> of the last measurement with positive width
  rawOffset,        \* nextOffset of the last frame before wrapping
  heldMs,           \* sum of the frame deltas since the effect's target changed (capped)
  velAtChange,      \* velocity when the effect's target changed
  tEvents,          \* prop and layout changes so far (bounded by MaxEvents)
  tCleanups,        \* times the LogoLoop cleanups were invoked
  tError,           \* an operation of the LogoLoop threw
  \* FaultyTerminalWithLogo
  sMounted,         \* the component is mounted
  pause, timeScale, pageLoadAnimation, mouseReact,   \* props (timeScale in tenths)
  eff,              \* the props captured by the running effect
  depsStale,        \* the component rendered after the running effect was set
                    \* up: the dependencies of that render differ from the
                    \* effect's (gridMul is by default a new array [2, 1] in
                    \* every render, and React compares with Object.is)
  timeOffset,       \* timeOffsetRef.current, ms
  frozenTime,       \* frozenTimeRef.current
  loadAnimationStart,  \* loadAnimationStartRef.current, ms (0: not recorded)
  sRaf,             \* pending update callbacks: [id, pause, timeScale, pla, mouse]
  sRafRef,          \* rafRef.current
  uITime,           \* program.uniforms.iTime.value
  uPageLoadProgress,   \* program.uniforms.uPageLoadProgress.value
  intervalOn,       \* the 50 ms rasterization interval is set
  sObserving,       \* the ResizeObserver is connected
  listenerOn,       \* the mousemove listener is registered
  canvasAttached,   \* gl.canvas is a child of the container
  textureLive,      \* the overlay texture exists
  contextLost,      \* the WebGL context is lost
  gen,              \* number of the running effect (1 for the mount)
  sInitFailed,      \* the effect body threw
  host,             \* what the host holds for the component: timers, observers,
                    \* listeners, canvases in the container, contexts, textures
  dpr,              \* prop dpr (the device pixel ratio)
  ctnSize,          \* <<ctn.offsetWidth, ctn.offsetHeight>>, the layout now
  logoHeight,       \* prop logoHeight, px
  notifiedSize,     \* size of the container the ResizeObserver reported last
                    \* (<<0, 0>>: it has reported nothing)
  uResolution,      \* program.uniforms.iResolution.value: <<width, height, aspect>>
  passSeq,          \* calls of updateLogoTexture so far
  inflight,         \* passes whose image has not loaded yet: [id, gen, blank],
                    \* blank: the rect the pass measured has no area
  texture,          \* pass whose bitmap the texture of the running effect holds (0: none)
  urls,             \* passes whose object URL is created and not revoked
  mouse,            \* mouseRef.current, <<x, y>> in 1/FP
  smoothMouse,      \* smoothMouseRef.current
  uMouse,           \* program.uniforms.uMouse.value
  uUseMouse,        \* program.uniforms.uUseMouse.value
  uUsePageLoadAnimation,   \* program.uniforms.uUsePageLoadAnimation.value
  uMouseStrength,   \* program.uniforms.uMouseStrength.value, 1/FP
  uScale,           \* program.uniforms.uScale.value, 1/FP
  frag,             \* one evaluation of digit() in the fragment shader: the cell s,
                    \* its cellRandom, the intensity of the pattern, the intensity
                    \* now, the stage
  \* FaultyTerminalWithLogo, history
  drawn,            \* what the last draw call saw: [t, iTime, progress, paused, pla, timeScale]
  snapshot,         \* iTime written by the last unpaused frame
  firstFrameT,      \* timestamp of the first frame run with pageLoadAnimation (0: none)
  lastFailed,       \* last pass of the running effect that failed: no 2D context, or
                    \* no decode (0: none)
  loadThrew,        \* an img.onload of a pass of the running effect threw
  sEvents,          \* events the host sent so far: prop changes, pointer moves,
                    \* interval ticks, changes of the container's size, resize
                    \* notifications, image loads and failed decodes,
                    \* the unmount (bounded by MaxEvents)
  sCleanups,        \* times the cleanup of the current effect was invoked
  sError            \* an operation of the component threw

tickerVars ==
  <<tMounted, speed, direction, targetVelocity, targetNegZero, containerWidth,
    sequenceWidth, seqWidth, copyCount, tObserving, effTarget, effNegZero,
    effSeqWidth, tRaf, tRafRef,
    lastTimestamp, offset, velocity, transform, tMeasured, rawOffset, heldMs,
    velAtChange, tEvents, tCleanups, tError>>

shaderVars ==
  <<sMounted, pause, timeScale, pageLoadAnimation, mouseReact, eff, depsStale,
    timeOffset,
    frozenTime, loadAnimationStart, sRaf, sRafRef, uITime, uPageLoadProgress,
    intervalOn, sObserving, listenerOn, canvasAttached, textureLive,
    contextLost, gen, sInitFailed, host, dpr, ctnSize, logoHeight,
    notifiedSize, uResolution, passSeq,
    inflight, texture, urls, mouse, smoothMouse, uMouse, uUseMouse,
    uUsePageLoadAnimation, uMouseStrength,
    uScale, frag, drawn, snapshot,
    firstFrameT, lastFailed, loadThrew, sEvents, sCleanups, sError>>

vars == <<focus, now, rafSeq, tickerVars, shaderVars>>

\* ---------------------------------------------------------- host services
\* requestAnimationFrame: the handles are 1, 2, 3, ...
RequestId == rafSeq + 1

\* cancelAnimationFrame(id): the callback with that handle is dropped
CancelAnimationFrame(pending, id) == {r \in pending : r.id # id}

\* ------------------------------------------------------------- LogoLoop
\* faulty variant: the sign of the speed is dropped
TargetVelocityNoFlip(s, d) == Abs(s) * Sub * (IF d = "left" THEN 1 ELSE -1)
\* targetVelocity = magnitude * directionMultiplier * speedMultiplier
TargetVelocity(s, d) ==
  LET magnitude == Abs(s) * Sub
      directionMultiplier == IF d = "left" THEN 1 ELSE -1
      speedMultiplier == IF s < 0 THEN -1 ELSE 1
  IN  magnitude * directionMultiplier * speedMultiplier

\* the product is -0 (0 * -1 * 1) for speed 0 and direction 'right', and 0 or
\* the nonzero value of TargetVelocity otherwise
NegativeZero(s, d) == s = 0 /\ d # "left"

\* Object.is on the dependencies [targetVelocity, seqWidth]: whether a render
\* with the values a differs from the effect that captured the values b
DepsChanged(a, b) == a # b

\* faulty variant: Math.floor in place of Math.ceil
CopiesNeededFloor(c, s) == ((c * Sub) \div s) + COPY_HEADROOM
\* copiesNeeded = Math.ceil(containerWidth / sequenceWidth) + COPY_HEADROOM
CopiesNeeded(c, s) == CeilDiv(c * Sub, s) + COPY_HEADROOM

\* faulty variant: a measurement of zero width resets the state
UpdateDimensionsReset(c, s, oldSeq, oldCopies) ==
  IF s > 0
  THEN <<CeilDiv(s, Sub), Max(MIN_COPIES, CopiesNeeded(c, s))>>
  ELSE <<0, MIN_COPIES>>
\* updateDimensions: the new <<seqWidth, copyCount>>
UpdateDimensions(c, s, oldSeq, oldCopies) ==
  IF s > 0
  THEN <<CeilDiv(s, Sub), Max(MIN_COPIES, CopiesNeeded(c, s))>>
  ELSE <<oldSeq, oldCopies>>

\* faulty variant: a single x % seqWidth
WrapNoShift(x, w) == JsRem(x, w)
\* ((x % seqWidth) + seqWidth) % seqWidth
Wrap(x, w) == JsRem(JsRem(x, w) + w, w)

\* faulty variant: the effect body leaves the offset as it is
RewrapSkipped(off, w) == off
\* if (seqWidth > 0) offsetRef.current = ((offsetRef.current % seqWidth) + seqWidth) % seqWidth
Rewrap(off, w) == IF w > 0 THEN Wrap(off, w * Sub) ELSE off

\* faulty variant: a null lastTimestampRef counts as timestamp 0
FirstTimestampZero(ref, timestamp) == IF ref = NULL THEN 0 ELSE ref
\* if (lastTimestampRef.current === null) lastTimestampRef.current = timestamp
FirstTimestamp(ref, timestamp) == IF ref = NULL THEN timestamp ELSE ref

\* faulty variant: a time constant of 1 s
EasingFactorSlow(dt) == FP - ExpNeg(dt \div 4)
\* easingFactor = 1 - Math.exp(-deltaTime / SMOOTH_TAU)
EasingFactor(dt) == FP - ExpNeg(dt)

\* faulty variant: the new handle is not stored
KeepRafRef(ref, id) == ref
\* rafRef.current = requestAnimationFrame(animate)
StoreRafRef(ref, id) == id

\* faulty variant: the pending callback is not cancelled
TickerCleanupRafKept(pending, ref) == pending
\* cleanup of the animation effect: the callbacks left pending
TickerCleanupRaf(pending, ref) ==
  IF ref # NULL THEN CancelAnimationFrame(pending, ref) ELSE pending

FiveTau == 5 * SMOOTH_TAU
DefaultLogoSpeed == 80

TickerInit ==
  /\ tMounted = TRUE
  \* as FaultyTerminalWithLogo renders it: speed={logoSpeed} direction="left"
  /\ speed = DefaultLogoSpeed
  /\ direction = "left"
  /\ targetVelocity = TargetVelocity(speed, direction)
  /\ targetNegZero = NegativeZero(speed, direction)
  /\ containerWidth \in ContainerWidths
  /\ sequenceWidth \in SequenceWidths
  \* first effect: updateDimensions(), then the observer is connected
  /\ seqWidth = UpdateDimensions(containerWidth, sequenceWidth, 0, MIN_COPIES)[1]
  /\ copyCount = UpdateDimensions(containerWidth, sequenceWidth, 0, MIN_COPIES)[2]
  /\ tMeasured = IF sequenceWidth > 0 THEN <<containerWidth, sequenceWidth>> ELSE <<>>
  /\ tObserving = TRUE
  \* second effect, run with the first render's seqWidth = 0
  /\ effTarget = targetVelocity
  /\ effNegZero = targetNegZero
  /\ effSeqWidth = 0
  /\ tRaf = {[id |-> 1, seqWidth |-> 0, target |-> targetVelocity]}
  /\ tRafRef = 1
  /\ lastTimestamp = NULL
  /\ offset = 0
  /\ velocity = 0
  /\ transform = 0
  /\ rawOffset = 0
  /\ heldMs = 0
  /\ velAtChange = 0
  /\ tEvents = 0
  /\ tCleanups = 0
  /\ tError = FALSE

\* the parent re-renders the LogoLoop with new props
TickerSetProps ==
  /\ focus = "ticker" /\ tMounted /\ tEvents < MaxEvents
  /\ \E s \in Speeds, d \in Directions :
       /\ <<s, d>> # <<speed, direction>>
       /\ speed' = s
       /\ direction' = d
       /\ targetVelocity' = TargetVelocity(s, d)
       /\ targetNegZero' = NegativeZero(s, d)
  /\ tEvents' = tEvents + 1
  /\ UNCHANGED shaderVars
  /\ UNCHANGED <<focus, now, rafSeq, tMounted, containerWidth, sequenceWidth,
                 seqWidth, copyCount, tObserving, effTarget, effNegZero,
                 effSeqWidth, tRaf, tRafRef, lastTimestamp, offset, velocity, transform, tMeasured,
                 rawOffset, heldMs, velAtChange, tCleanups, tError>>

\* the layout changes and the connected ResizeObserver calls updateDimensions()
TickerResizeObserved ==
  /\ focus = "ticker" /\ tMounted /\ tObserving /\ tEvents < MaxEvents
  /\ \E c \in ContainerWidths, s \in SequenceWidths :
       /\ <<c, s>> # <<containerWidth, sequenceWidth>>
       /\ containerWidth' = c
       /\ sequenceWidth' = s
       /\ seqWidth' = UpdateDimensions(c, s, seqWidth, copyCount)[1]
       /\ copyCount' = UpdateDimensions(c, s, seqWidth, copyCount)[2]
       /\ tMeasured' = IF s > 0 THEN <<c, s>> ELSE tMeasured
  /\ tEvents' = tEvents + 1
  /\ UNCHANGED shaderVars
  /\ UNCHANGED <<focus, now, rafSeq, tMounted, speed, direction, targetVelocity,
                 targetNegZero, tObserving, effTarget, effNegZero, effSeqWidth, tRaf, tRafRef,
                 lastTimestamp, offset, velocity, transform, rawOffset, heldMs,
                 velAtChange, tCleanups, tError>>

\* the animation effect re-runs after a render changed [targetVelocity, seqWidth]:
\* its cleanup, then its body
TickerRestart ==
  /\ focus = "ticker" /\ tMounted
  /\ DepsChanged(<<targetVelocity, targetNegZero, seqWidth>>,
                 <<effTarget, effNegZero, effSeqWidth>>)
  /\ rafSeq < MaxRaf
  /\ LET left == TickerCleanupRaf(tRaf, tRafRef)
         wrapped == Rewrap(offset, seqWidth)
     IN  /\ offset' = wrapped
         /\ transform' = IF seqWidth > 0 THEN -wrapped ELSE transform
         /\ tRaf' = left \cup {[id |-> RequestId, seqWidth |-> seqWidth,
                                target |-> targetVelocity]}
  /\ tRafRef' = RequestId
  /\ rafSeq' = RequestId
  /\ lastTimestamp' = NULL
  /\ effTarget' = targetVelocity
  /\ effNegZero' = targetNegZero
  /\ effSeqWidth' = seqWidth
  /\ heldMs' = IF targetVelocity # effTarget THEN 0 ELSE heldMs
  /\ velAtChange' = IF targetVelocity # effTarget THEN velocity ELSE velAtChange
  /\ UNCHANGED shaderVars
  /\ UNCHANGED <<focus, now, tMounted, speed, direction, targetVelocity,
                 targetNegZero, containerWidth, sequenceWidth, seqWidth, copyCount, tObserving,
                 velocity, tMeasured, rawOffset, tEvents, tCleanups, tError>>

\* one animate(timestamp) callback, run by the host at timestamp now'
TickerAnimate ==
  /\ focus = "ticker"
  /\ rafSeq < MaxRaf
  /\ \E r \in tRaf, d \in Deltas :
       LET timestamp == now + d
           last == FirstTimestamp(lastTimestamp, timestamp)
           deltaTime == Max(0, timestamp - last)
           v == velocity + MulFP(r.target - velocity, EasingFactor(deltaTime))
           nextOffset == offset + RoundDiv(v * deltaTime, MsPerSecond)
       IN  /\ timestamp <= MaxTime
           /\ now' = timestamp
           /\ lastTimestamp' = timestamp
           /\ velocity' = v
           /\ IF r.seqWidth > 0
              THEN /\ offset' = Wrap(nextOffset, r.seqWidth * Sub)
                   /\ transform' = -offset'
                   /\ rawOffset' = nextOffset
              ELSE UNCHANGED <<offset, transform, rawOffset>>
           /\ tRaf' = (tRaf \ {r}) \cup {[r EXCEPT !.id = RequestId]}
           /\ tRafRef' = StoreRafRef(tRafRef, RequestId)
           /\ rafSeq' = RequestId
           /\ heldMs' = Min(FiveTau, heldMs + deltaTime)
  /\ UNCHANGED shaderVars
  /\ UNCHANGED <<focus, tMounted, speed, direction, targetVelocity, targetNegZero,
                 containerWidth, sequenceWidth, seqWidth, copyCount, tObserving,
                 effTarget, effNegZero, effSeqWidth, tMeasured, velAtChange, tEvents,
                 tCleanups, tError>>

\* the cleanups of both effects: observer.disconnect(), then the animation cleanup
TickerCleanup ==
  /\ tObserving' = FALSE
  /\ tRaf' = TickerCleanupRaf(tRaf, tRafRef)
  /\ tRafRef' = NULL
  /\ lastTimestamp' = NULL
  /\ tCleanups' = tCleanups + 1
  /\ UNCHANGED shaderVars
  /\ UNCHANGED <<focus, now, rafSeq, speed, direction, targetVelocity, targetNegZero,
                 containerWidth, sequenceWidth, seqWidth, copyCount, effTarget, effNegZero,
                 effSeqWidth, offset, velocity, transform, tMeasured, rawOffset,
                 heldMs, velAtChange, tEvents, tError>>

\* the LogoLoop unmounts
TickerUnmount ==
  /\ focus = "ticker" /\ tMounted
  /\ tMounted' = FALSE
  /\ TickerCleanup

\* the cleanups are invoked a second time
TickerCleanupAgain ==
  /\ focus = "ticker" /\ ~tMounted /\ tCleanups = 1
  /\ UNCHANGED tMounted
  /\ TickerCleanup

TickerNext ==
  \/ TickerSetProps
  \/ TickerResizeObserved
  \/ TickerRestart
  \/ TickerAnimate
  \/ TickerUnmount
  \/ TickerCleanupAgain

\* the LogoLoop when the run is about the shader effect alone
TickerIdle ==
  /\ tMounted = FALSE /\ speed = 0 /\ direction = "left" /\ targetVelocity = 0
  /\ targetNegZero = FALSE /\ effNegZero = FALSE
  /\ containerWidth = 0 /\ sequenceWidth = 0 /\ seqWidth = 0
  /\ copyCount = MIN_COPIES /\ tMeasured = <<>> /\ tObserving = FALSE
  /\ effTarget = 0 /\ effSeqWidth = 0 /\ tRaf = {} /\ tRafRef = NULL
  /\ lastTimestamp = NULL /\ offset = 0 /\ velocity = 0 /\ transform = 0
  /\ rawOffset = 0 /\ heldMs = 0 /\ velAtChange = 0 /\ tEvents = 0
  /\ tCleanups = 0 /\ tError = FALSE

\* ------------------------------------------------ FaultyTerminalWithLogo
AnimationDuration == 2000
DefaultTimeScale == 3
DampingPercent == 8
DefaultMouseStrength == FP \div 5
DefaultScale == FP
Half == FP \div 2

\* groups of the component's variables
sProps == <<pause, timeScale, pageLoadAnimation, mouseReact, dpr, depsStale>>
sClock == <<timeOffset, frozenTime, loadAnimationStart, uITime,
            uPageLoadProgress, snapshot, firstFrameT>>
sLoop == <<sRaf, sRafRef>>
sResources == <<intervalOn, sObserving, listenerOn, canvasAttached,
                textureLive, contextLost, host>>
sRaster == <<passSeq, inflight, texture, urls, lastFailed, loadThrew>>
sPointer == <<mouse, smoothMouse, uMouse, uUseMouse, uUsePageLoadAnimation>>
sFragment == <<uMouseStrength, uScale, frag>>
sSize == <<ctnSize, logoHeight, notifiedSize, uResolution>>

\* no fragment is being evaluated
NoFragment == [s |-> <<0, 0>>, random |-> 0, pattern |-> 0, intensity |-> 0,
               stage |-> "none"]

NoDraw == [n |-> 0, t |-> 0, iTime |-> 0, progress |-> 0, paused |-> FALSE,
           pla |-> FALSE, timeScale |-> 0, mouse |-> <<0, 0>>, useMouse |-> 0,
           react |-> FALSE]

Props == [pause |-> pause, timeScale |-> timeScale, pla |-> pageLoadAnimation,
          mouse |-> mouseReact]

\* faulty variant: the uniform always starts at 0
InitialProgressZero(pla) == 0
\* uPageLoadProgress: { value: pageLoadAnimation ? 0 : 1 }
InitialProgress(pla) == IF pla THEN 0 ELSE AnimationDuration

\* faulty variant: the flag is always set
UseMouseAlways(react) == 1
\* uUseMouse: { value: mouseReact ? 1 : 0 }
UseMouse(react) == IF react THEN 1 ELSE 0

\* uUsePageLoadAnimation: { value: pageLoadAnimation ? 1 : 0 }
UsePageLoadAnimation(pla) == IF pla THEN 1 ELSE 0

\* faulty variant: the start is recorded again in every frame
RecordStartEveryFrame(pla, start, t) == IF pla THEN t ELSE start
\* if (pageLoadAnimation && loadAnimationStartRef.current === 0) ... = t
RecordStart(pla, start, t) == IF pla /\ start = 0 THEN t ELSE start

\* elapsed = (t * 0.001 + timeOffsetRef.current) * timeScale
Elapsed(t, off, ts) == (t + off) * ts

\* faulty variant: a paused frame leaves the uniform as it is
PinnedTimeNotWritten(frozen, uniform) == uniform
\* the paused branch: program.uniforms.iTime.value = frozenTimeRef.current
PinnedTime(frozen, uniform) == frozen

\* progress = Math.min(animationElapsed / animationDuration, 1)
Progress(t, start) == Min(t - start, AnimationDuration)

\* handleMouseMove, p the pointer's offset from the corner of the rect in px:
\* x = (clientX - rect.left) / rect.width, y = 1 - (clientY - rect.top) / rect.height
HandleMouseMove(p, size) ==
  <<RoundDiv(p[1] * FP, size[1]), FP - RoundDiv(p[2] * FP, size[2])>>

\* faulty variant: a damping factor of 1.08
SmoothOvershoot(s, raw) == s + RoundDiv((raw - s) * (100 + DampingPercent), 100)
\* smoothMouse.x += (mouse.x - smoothMouse.x) * dampingFactor, one axis
Smooth(s, raw) == s + RoundDiv((raw - s) * DampingPercent, 100)

\* gl.canvas.width / gl.canvas.height
Aspect(w, h) == RoundDiv(w * FP, h)

\* renderer.setSize(ctn.offsetWidth, ctn.offsetHeight) makes the canvas
\* offsetWidth * dpr by offsetHeight * dpr; iResolution is
\* new Color(canvas.width, canvas.height, canvas.width / canvas.height)
Resolution(size, d) ==
  <<size[1] * d, size[2] * d, Aspect(size[1] * d, size[2] * d)>>

\* logoCtn.getBoundingClientRect(), <<width, height>>: the logo container
\* spans the width of the container and has the height logoHeight + 20 px
\* of its style
LogoRect(size, h) == <<size[1], h + 20>>

\* canvas.width = rect.width * dpr, canvas.height = rect.height * dpr, and
\* drawImage(img, 0, 0, rect.width, rect.height): a rect without area gives a
\* canvas without area and a draw of nothing
Blank(rect) == rect[1] <= 0 \/ rect[2] <= 0

\* updateLogoTexture(), call number id made by effect g: with a 2D context the
\* image of the pass starts loading, without one nothing is done; rect is the
\* rect of the logo container the call measured
UpdateLogoTexture(fl, id, g, ctx, rect) ==
  IF ctx THEN fl \cup {[id |-> id, gen |-> g, blank |-> Blank(rect)]} ELSE fl

\* const url = URL.createObjectURL(svgBlob), inside if (ctx): the URLs held
CreateObjectURL(us, id, ctx) == IF ctx THEN us \cup {id} ELSE us

\* URL.revokeObjectURL(url), last statement of img.onload: the URLs held after
\* the image of pass id finished; the statement is reached when the image
\* decoded and the statements before it did not throw
RevokeObjectURL(us, id, reached) == IF reached THEN us \ {id} ELSE us

\* faulty variant: resize() without the call of updateLogoTexture()
ResizeNoRaster(size, d, seq, fl, g, ctx, rect) ==
  [resolution |-> Resolution(size, d), passSeq |-> seq, inflight |-> fl,
   failed |-> FALSE]
\* resize(): setSize, iResolution, updateLogoTexture()
Resize(size, d, seq, fl, g, ctx, rect) ==
  [resolution |-> Resolution(size, d), passSeq |-> seq + 1,
   inflight |-> UpdateLogoTexture(fl, seq + 1, g, ctx, rect), failed |-> ~ctx]

\* ctx.drawImage(img, 0, 0, rect.width, rect.height): the image is an SVG
\* document with a foreignObject, loaded from a Blob URL (lines 567-571);
\* drawing it leaves the 2D canvas not origin-clean, unless the rect has no
\* area and nothing is drawn
DrawImageTaints(blank) == ~blank

\* gl.texImage2D(gl.TEXTURE_2D, 0, gl.RGBA, gl.RGBA, gl.UNSIGNED_BYTE, canvas):
\* on the live context of the effect a canvas that is not origin-clean makes
\* the call throw SecurityError; a canvas that is origin-clean has no area,
\* and the call fails with INVALID_VALUE without throwing; on a lost context
\* the call returns having done nothing.  The texture keeps its contents in
\* each case
TexImage2D(tex, id, live, tainted) ==
  [texture |-> tex, threw |-> live /\ tainted]

\* faulty variant: an image that fails to decode raises an error
UploadOrThrow(tex, id, ok, live, blank) ==
  IF ok THEN TexImage2D(tex, id, live, DrawImageTaints(blank))
  ELSE [texture |-> tex, threw |-> TRUE]
\* img.onload: drawImage, bindTexture, texImage2D; an image that fails to
\* decode fires no load event, and no error handler is installed
Upload(tex, id, ok, live, blank) ==
  IF ok THEN TexImage2D(tex, id, live, DrawImageTaints(blank))
  ELSE [texture |-> tex, threw |-> FALSE]

\* rafRef.current = requestAnimationFrame(update), first statement of update
ShaderStoreRafRef(ref, id) == id

\* cancelAnimationFrame(rafRef.current)
ShaderCleanupRaf(pending, ref) == CancelAnimationFrame(pending, ref)

\* faulty variant: removeChild without the parentElement test; removeChild of
\* a node that is not a child throws
RemoveCanvasUnguarded(attached) == [attached |-> FALSE, threw |-> ~attached]
\* if (gl.canvas.parentElement === ctn) ctn.removeChild(gl.canvas)
RemoveCanvas(attached) == [attached |-> FALSE, threw |-> FALSE]

\* if (mouseReact) ctn.removeEventListener('mousemove', handleMouseMove)
RemoveListener(on, react) == IF react THEN FALSE ELSE on

\* faulty variant: the interval is left running
ClearIntervalSkipped(n, on) == n
\* clearInterval(textureUpdateInterval): the timers the host still holds
ClearInterval(n, on) == IF on THEN n - 1 ELSE n

\* disconnect, removeEventListener, removeChild, deleteTexture, loseContext:
\* the host drops the object if it still held it
Release(n, held) == IF held THEN n - 1 ELSE n

NoHost == [intervals |-> 0, observers |-> 0, listeners |-> 0, canvases |-> 0,
           contexts |-> 0, textures |-> 0]

\* what the host holds after the cleanup of the running effect
HostAfterCleanup ==
  [intervals |-> ClearInterval(host.intervals, intervalOn),
   observers |-> Release(host.observers, sObserving),
   listeners |-> Release(host.listeners, listenerOn /\ eff.mouse),
   canvases  |-> Release(host.canvases, canvasAttached),
   contexts  |-> Release(host.contexts, ~contextLost),
   textures  |-> Release(host.textures, textureLive)]

\* what the host holds after the effect body ran with the props p
HostAfterSetup(h, p) ==
  [intervals |-> h.intervals + 1,
   observers |-> h.observers + 1,
   listeners |-> h.listeners + (IF p.mouse THEN 1 ELSE 0),
   canvases  |-> h.canvases + 1,
   contexts  |-> h.contexts + 1,
   textures  |-> h.textures + 1]

\* faulty variant: the scene is drawn twice
RenderTwice(prev, t, r, time, progress, m, use) ==
  [n |-> prev.n + 2, t |-> t, iTime |-> time, progress |-> progress,
   paused |-> r.pause, pla |-> r.pla, timeScale |-> r.timeScale, mouse |-> m,
   useMouse |-> use, react |-> r.mouse]
\* renderer.render({ scene: mesh }), last statement of update: the draw call
\* and the uniform values it reads
Render(prev, t, r, time, progress, m, use) ==
  [n |-> prev.n + 1, t |-> t, iTime |-> time, progress |-> progress,
   paused |-> r.pause, pla |-> r.pla, timeScale |-> r.timeScale, mouse |-> m,
   useMouse |-> use, react |-> r.mouse]

\* the effect body with the props p, h what the host holds when it starts:
\* renderer, texture, program, observer, resize(), interval, first
\* requestAnimationFrame, canvas, listener
ShaderSetup(p, h, ctx) ==
  /\ eff' = p
  /\ depsStale' = FALSE
  /\ gen' = gen + 1
  /\ uITime' = 0
  /\ uMouse' = smoothMouse
  /\ uUseMouse' = UseMouse(p.mouse)
  /\ uUsePageLoadAnimation' = UsePageLoadAnimation(p.pla)
  /\ uPageLoadProgress' = InitialProgress(p.pla)
  /\ textureLive' = TRUE
  /\ texture' = 0
  /\ contextLost' = FALSE
  /\ sObserving' = TRUE
  /\ notifiedSize' = <<0, 0>>
  \* resize()
  /\ uResolution' = Resize(ctnSize, dpr, passSeq, inflight, gen + 1, ctx,
                          LogoRect(ctnSize, logoHeight)).resolution
  /\ passSeq' = Resize(ctnSize, dpr, passSeq, inflight, gen + 1, ctx,
                          LogoRect(ctnSize, logoHeight)).passSeq
  /\ inflight' = Resize(ctnSize, dpr, passSeq, inflight, gen + 1, ctx,
                          LogoRect(ctnSize, logoHeight)).inflight
  /\ urls' = CreateObjectURL(urls, passSeq + 1, ctx)
  /\ lastFailed' = IF Resize(ctnSize, dpr, passSeq, inflight, gen + 1, ctx,
                          LogoRect(ctnSize, logoHeight)).failed
                   THEN passSeq' ELSE 0
  /\ loadThrew' = FALSE
  /\ intervalOn' = TRUE
  /\ sRafRef' = RequestId
  /\ rafSeq' = RequestId
  /\ canvasAttached' = TRUE
  /\ listenerOn' = p.mouse
  /\ host' = HostAfterSetup(h, p)
  /\ sCleanups' = 0

ShaderInit ==
  /\ sMounted = TRUE
  /\ pause = FALSE
  /\ timeScale = DefaultTimeScale
  /\ pageLoadAnimation = TRUE
  /\ mouseReact = TRUE
  /\ eff = Props
  /\ depsStale = FALSE
  /\ gen = 1
  /\ sInitFailed = FALSE
  /\ \E e \in Environments : timeOffset = e.timeOffset /\ dpr = e.dpr
  /\ frozenTime = 0
  /\ loadAnimationStart = 0
  /\ sRaf = {[id |-> 1, pause |-> FALSE, timeScale |-> DefaultTimeScale,
              pla |-> TRUE, mouse |-> TRUE]}
  /\ sRafRef = 1
  /\ uITime = 0
  /\ uPageLoadProgress = InitialProgress(TRUE)
  /\ mouse = <<Half, Half>>
  /\ smoothMouse = <<Half, Half>>
  /\ uMouse = <<Half, Half>>
  /\ uUseMouse = UseMouse(TRUE)
  /\ uUsePageLoadAnimation = UsePageLoadAnimation(TRUE)
  /\ uMouseStrength = DefaultMouseStrength
  /\ uScale = DefaultScale
  /\ frag = NoFragment
  /\ ctnSize = <<800, 600>>
  /\ logoHeight \in LogoHeights
  /\ notifiedSize = <<0, 0>>
  /\ uResolution = Resolution(ctnSize, dpr)
  /\ intervalOn = TRUE
  /\ sObserving = TRUE
  /\ listenerOn = TRUE
  /\ canvasAttached = TRUE
  /\ textureLive = TRUE
  /\ contextLost = FALSE
  /\ host = HostAfterSetup(NoHost, Props)
  /\ passSeq = 1
  /\ inflight = UpdateLogoTexture({}, 1, 1, TRUE,
                                  LogoRect(ctnSize, logoHeight))
  /\ texture = 0
  /\ urls = CreateObjectURL({}, 1, TRUE)
  /\ lastFailed = 0
  /\ loadThrew = FALSE
  /\ drawn = NoDraw
  /\ snapshot = 0
  /\ firstFrameT = 0
  /\ sEvents = 0
  /\ sCleanups = 0
  /\ sError = FALSE

\* the component is not mounted; the uniforms are left to the caller
ShaderUnmounted ==
  /\ sMounted = FALSE /\ pause = FALSE /\ timeScale = DefaultTimeScale
  /\ pageLoadAnimation = TRUE /\ mouseReact = TRUE /\ dpr = 1 /\ eff = Props
  /\ depsStale = FALSE
  /\ gen = 0 /\ sInitFailed = FALSE
  /\ timeOffset = 0 /\ frozenTime = 0 /\ loadAnimationStart = 0 /\ sRaf = {}
  /\ sRafRef = 0
  /\ mouse = <<Half, Half>> /\ smoothMouse = <<Half, Half>>
  /\ ctnSize = <<0, 0>> /\ uResolution = <<0, 0, 0>>
  /\ logoHeight = 32 /\ notifiedSize = <<0, 0>>
  /\ intervalOn = FALSE
  /\ sObserving = FALSE /\ listenerOn = FALSE /\ canvasAttached = FALSE
  /\ textureLive = FALSE /\ contextLost = FALSE /\ host = NoHost
  /\ passSeq = 0 /\ inflight = {} /\ texture = 0 /\ lastFailed = 0
  /\ loadThrew = FALSE
  /\ urls = {}
  /\ drawn = NoDraw /\ snapshot = 0 /\ firstFrameT = 0 /\ sEvents = 0
  /\ sCleanups = 0 /\ sError = FALSE

\* the component when the run is about the LogoLoop alone
ShaderIdle ==
  /\ ShaderUnmounted
  /\ uITime = 0 /\ uMouse = <<Half, Half>> /\ uUseMouse = 0
  /\ uPageLoadProgress = 0 /\ uUsePageLoadAnimation = 0
  /\ uMouseStrength = DefaultMouseStrength /\ uScale = DefaultScale
  /\ frag = NoFragment

\* the parent re-renders the component with the same props
ShaderRerender ==
  /\ focus = "shader" /\ sMounted /\ sEvents < MaxEvents
  /\ depsStale' = TRUE
  /\ sEvents' = sEvents + 1
  /\ UNCHANGED tickerVars
  /\ UNCHANGED sFragment
  /\ UNCHANGED <<focus, now, rafSeq, sMounted, pause, timeScale,
                 pageLoadAnimation, mouseReact, dpr, eff, gen, sInitFailed,
                 sClock, sLoop, sResources, sRaster, sPointer, sSize, drawn,
                 sCleanups, sError>>

\* the parent re-renders the component with one prop changed
ShaderSetProps ==
  /\ focus = "shader" /\ sMounted /\ sEvents < MaxEvents
  /\ \/ pause' = ~pause /\ UNCHANGED <<timeScale, pageLoadAnimation, mouseReact>>
     \/ /\ timeScale' \in TimeScales \ {timeScale}
        /\ UNCHANGED <<pause, pageLoadAnimation, mouseReact>>
     \/ /\ pageLoadAnimation' = ~pageLoadAnimation
        /\ UNCHANGED <<pause, timeScale, mouseReact>>
     \/ /\ mouseReact' = ~mouseReact
        /\ UNCHANGED <<pause, timeScale, pageLoadAnimation>>
  /\ depsStale' = TRUE
  /\ sEvents' = sEvents + 1
  /\ UNCHANGED tickerVars
  /\ UNCHANGED sFragment
  /\ UNCHANGED <<focus, now, rafSeq, sMounted, dpr, eff, gen, sInitFailed,
                 sClock, sLoop, sResources, sRaster, sPointer, sSize, drawn,
                 sCleanups, sError>>

\* the pointer moves over the container: the host calls handleMouseMove if
\* the listener is registered
ShaderPointerMove ==
  /\ focus = "shader" /\ sMounted /\ sEvents < MaxEvents
  /\ \E p \in PointerPositions :
       mouse' = IF listenerOn THEN HandleMouseMove(p, ctnSize) ELSE mouse
  /\ sEvents' = sEvents + 1
  /\ UNCHANGED tickerVars
  /\ UNCHANGED sFragment
  /\ UNCHANGED <<focus, now, rafSeq, sMounted, sProps, eff, gen, sInitFailed,
                 sClock, sLoop, sResources, sRaster, smoothMouse, uMouse,
                 uUseMouse, uUsePageLoadAnimation, sSize, drawn, sCleanups, sError>>

\* the effect re-runs after a render, every render changing its dependencies:
\* the cleanup of the previous effect, then the body
ShaderRestart ==
  /\ focus = "shader" /\ sMounted
  /\ depsStale
  /\ rafSeq < MaxRaf
  /\ sError' = (sError \/ RemoveCanvas(canvasAttached).threw)
  /\ sRaf' = ShaderCleanupRaf(sRaf, sRafRef) \cup
             {[id |-> RequestId, pause |-> pause, timeScale |-> timeScale,
               pla |-> pageLoadAnimation, mouse |-> mouseReact]}
  /\ \E ctx \in BOOLEAN : ShaderSetup(Props, HostAfterCleanup, ctx)
  /\ UNCHANGED tickerVars
  /\ UNCHANGED sFragment
  /\ UNCHANGED <<focus, now, sMounted, pause, timeScale, pageLoadAnimation,
                 mouseReact, dpr, sInitFailed, timeOffset, frozenTime, loadAnimationStart, snapshot, firstFrameT, mouse,
                 smoothMouse, ctnSize, logoHeight, drawn, sEvents>>

\* one update(t) callback, run by the host at timestamp now'
ShaderUpdate ==
  /\ focus = "shader"
  /\ rafSeq < MaxRaf
  /\ \E r \in sRaf, d \in ShaderDeltas :
       LET t == now + d
           start == RecordStart(r.pla, loadAnimationStart, t)
           time == IF ~r.pause THEN Elapsed(t, timeOffset, r.timeScale)
                   ELSE PinnedTime(frozenTime, uITime)
           progress == IF r.pla /\ start > 0 THEN Progress(t, start)
                       ELSE uPageLoadProgress
           smooth == IF r.mouse
                     THEN <<Smooth(smoothMouse[1], mouse[1]),
                            Smooth(smoothMouse[2], mouse[2])>>
                     ELSE smoothMouse
           uniform == IF r.mouse THEN smooth ELSE uMouse
       IN  /\ t <= MaxShaderTime
           /\ now' = t
           /\ sRaf' = (sRaf \ {r}) \cup {[r EXCEPT !.id = RequestId]}
           /\ sRafRef' = ShaderStoreRafRef(sRafRef, RequestId)
           /\ rafSeq' = RequestId
           /\ loadAnimationStart' = start
           /\ uITime' = time
           /\ frozenTime' = IF ~r.pause THEN time ELSE frozenTime
           /\ uPageLoadProgress' = progress
           /\ smoothMouse' = smooth
           /\ uMouse' = uniform
           /\ drawn' = Render(drawn, t, r, time, progress, uniform, uUseMouse)
           /\ snapshot' = IF ~r.pause THEN time ELSE snapshot
           /\ firstFrameT' = IF r.pla /\ firstFrameT = 0 THEN t ELSE firstFrameT
  /\ UNCHANGED tickerVars
  /\ UNCHANGED sFragment
  /\ UNCHANGED <<focus, sMounted, sProps, eff, gen, sInitFailed, timeOffset,
                 sResources, sRaster, mouse, uUseMouse, uUsePageLoadAnimation, sSize, sEvents,
                 sCleanups, sError>>

\* a tick of setInterval(updateLogoTexture, 50)
ShaderIntervalTick ==
  /\ focus = "shader" /\ intervalOn /\ sEvents < MaxEvents
  /\ Cardinality(inflight) < MaxInflight
  /\ passSeq' = passSeq + 1
  /\ sEvents' = sEvents + 1
  /\ \E ctx \in BOOLEAN :
       /\ inflight' = UpdateLogoTexture(inflight, passSeq + 1, gen, ctx,
                                        LogoRect(ctnSize, logoHeight))
       /\ urls' = CreateObjectURL(urls, passSeq + 1, ctx)
       /\ lastFailed' = IF ctx THEN lastFailed ELSE passSeq + 1
  /\ UNCHANGED tickerVars
  /\ UNCHANGED sFragment
  /\ UNCHANGED <<focus, now, rafSeq, sMounted, sProps, eff, gen, sInitFailed,
                 sClock, sLoop, sResources, texture, loadThrew, sPointer,
                 sSize, drawn, sCleanups, sError>>

\* the layout changes the size of the container; the code reads the size
\* when it next measures it
ShaderLayout ==
  /\ focus = "shader" /\ sMounted /\ sEvents < MaxEvents
  /\ \E size \in ContainerSizes \ {ctnSize} : ctnSize' = size
  /\ sEvents' = sEvents + 1
  /\ UNCHANGED tickerVars
  /\ UNCHANGED sFragment
  /\ UNCHANGED <<focus, now, rafSeq, sMounted, sProps, eff, gen, sInitFailed,
                 sClock, sLoop, sResources, sRaster, sPointer, logoHeight,
                 notifiedSize, uResolution, drawn, sCleanups, sError>>

\* the connected ResizeObserver notifies (once the observation has started,
\* and when the container's size is not the one it reported last) and its
\* callback runs resize(), which measures the container
ShaderResizeObserved ==
  /\ focus = "shader" /\ sObserving /\ sEvents < MaxEvents
  /\ notifiedSize # ctnSize
  /\ Cardinality(inflight) < MaxInflight
  /\ \E ctx \in BOOLEAN :
       LET done == Resize(ctnSize, dpr, passSeq, inflight, gen, ctx,
                          LogoRect(ctnSize, logoHeight))
       IN  /\ uResolution' = done.resolution
           /\ passSeq' = done.passSeq
           /\ inflight' = done.inflight
           /\ urls' = CreateObjectURL(urls, done.passSeq, ctx)
           /\ lastFailed' = IF done.failed THEN done.passSeq ELSE lastFailed
  /\ notifiedSize' = ctnSize
  /\ sEvents' = sEvents + 1
  /\ UNCHANGED tickerVars
  /\ UNCHANGED sFragment
  /\ UNCHANGED <<focus, now, rafSeq, sMounted, sProps, eff, gen, sInitFailed,
                 sClock, sLoop, sResources, texture, loadThrew, sPointer,
                 ctnSize, logoHeight, drawn, sCleanups, sError>>

\* the image of a pass finishes: img.onload if it decoded, nothing otherwise.
\* The callback draws the image, binds the texture of the effect that started
\* the pass and uploads the canvas to it.  While that effect runs the upload
\* throws if the canvas is not origin-clean: the texture is not written, the
\* error leaves the callback and the URL of the pass is not revoked.  With a
\* logo container of no area, and after the cleanup of that effect (the
\* calls on its lost context do nothing), the callback runs to its end and
\* the URL is revoked.  The load or the failed decode is an event of the host
ShaderImageLoad ==
  /\ focus = "shader"
  /\ \E p \in inflight, ok \in BOOLEAN :
       LET live == p.gen = gen /\ textureLive
           done == Upload(texture, p.id, ok, live, p.blank)
       IN  /\ sEvents < MaxEvents
           /\ sEvents' = sEvents + 1
           /\ inflight' = inflight \ {p}
           /\ texture' = done.texture
           /\ loadThrew' = (loadThrew \/ done.threw)
           /\ urls' = RevokeObjectURL(urls, p.id, ok /\ ~done.threw)
           /\ lastFailed' = IF live /\ ~ok THEN p.id ELSE lastFailed
  /\ UNCHANGED tickerVars
  /\ UNCHANGED sFragment
  /\ UNCHANGED <<focus, now, rafSeq, sMounted, sProps, eff, gen, sInitFailed,
                 sClock, sLoop, sResources, passSeq, sPointer,
                 sSize, drawn, sCleanups, sError>>

\* the cleanup the effect returned
ShaderCleanup ==
  /\ sRaf' = ShaderCleanupRaf(sRaf, sRafRef)
  /\ intervalOn' = FALSE
  /\ sObserving' = FALSE
  /\ listenerOn' = RemoveListener(listenerOn, eff.mouse)
  /\ canvasAttached' = RemoveCanvas(canvasAttached).attached
  /\ sError' = (sError \/ RemoveCanvas(canvasAttached).threw)
  /\ textureLive' = FALSE
  /\ texture' = 0
  /\ contextLost' = TRUE
  /\ host' = HostAfterCleanup
  /\ sCleanups' = sCleanups + 1
  /\ UNCHANGED tickerVars
  /\ UNCHANGED sFragment
  /\ UNCHANGED <<focus, now, rafSeq, pause, timeScale, pageLoadAnimation,
                 mouseReact, dpr, eff, gen, sClock, sRafRef, passSeq, inflight,
                 urls, lastFailed, loadThrew, sPointer, sSize,
                 drawn>>

\* the effect re-runs, and the host has no WebGL context to give: the cleanup
\* of the previous effect, then the body, which throws at gl.clearColor (gl is
\* not checked); React unmounts the tree whose effect threw
ShaderRestartNoContext ==
  /\ focus = "shader" /\ sMounted
  /\ depsStale
  /\ depsStale' = FALSE
  /\ sMounted' = FALSE
  /\ sInitFailed' = TRUE
  /\ UNCHANGED sEvents
  /\ ShaderCleanup

\* the component unmounts
ShaderUnmount ==
  /\ focus = "shader" /\ sMounted /\ sEvents < MaxEvents
  /\ sMounted' = FALSE
  /\ sEvents' = sEvents + 1
  /\ UNCHANGED <<sInitFailed, depsStale>>
  /\ ShaderCleanup

\* the cleanup is invoked a second time
ShaderCleanupAgain ==
  /\ focus = "shader" /\ ~sMounted /\ sCleanups = 1
  /\ UNCHANGED <<sMounted, sInitFailed, sEvents, depsStale>>
  /\ ShaderCleanup

ShaderNext ==
  \/ ShaderRerender
  \/ ShaderSetProps
  \/ ShaderPointerMove
  \/ ShaderRestart
  \/ ShaderRestartNoContext
  \/ ShaderUpdate
  \/ ShaderIntervalTick
  \/ ShaderLayout
  \/ ShaderResizeObserved
  \/ ShaderImageLoad
  \/ ShaderUnmount
  \/ ShaderCleanupAgain

\* ------------------------------------------------- fragment shader, digit()
\* vec2 mouseWorld = uMouse * uScale
MouseWorld(m, scale) == <<MulFP(m[1], scale), MulFP(m[2], scale)>>

\* distance(s, mouseWorld)
Distance(a, b) ==
  Sqrt((a[1] - b[1]) * (a[1] - b[1]) + (a[2] - b[2]) * (a[2] - b[2]))

\* float mouseInfluence = exp(-distToMouse * 8.0) * uMouseStrength * 10.0
MouseInfluence(dist, strength) == MulFP(ExpMinus(dist * 8), strength) * 10

\* faulty variant: the ripple is not scaled by mouseInfluence
RippleUngated(dist, time, influence) ==
  MulFP(Sin(dist * 20 - time * 5), FP \div 10)
\* float ripple = sin(distToMouse * 20.0 - iTime * 5.0) * 0.1 * mouseInfluence
Ripple(dist, time, influence) ==
  MulFP(MulFP(Sin(dist * 20 - time * 5), FP \div 10), influence)

\* if (uUseMouse > 0.5) { ... intensity += mouseInfluence; ... intensity += ripple; }
PointerBlock(intensity, s, m, scale, strength, time, use) ==
  IF 2 * use > 1
  THEN LET dist == Distance(s, MouseWorld(m, scale))
           influence == MouseInfluence(dist, strength)
       IN  (intensity + influence) + Ripple(dist, time, influence)
  ELSE intensity

\* clamp(x, lo, hi)
Clamp(x, lo, hi) == Max(lo, Min(x, hi))

\* smoothstep(0.0, 1.0, x) for x in [0, 1]: x * x * (3 - 2 * x)
Smoothstep(x) == MulFP(MulFP(x, x), 3 * FP - 2 * x)

\* if (uUsePageLoadAnimation > 0.5) { cellDelay = cellRandom * 0.8;
\* cellProgress = clamp((uPageLoadProgress - cellDelay) / 0.2, 0.0, 1.0);
\* intensity *= smoothstep(0.0, 1.0, cellProgress); }
PageLoadFade(intensity, random, progress, use) ==
  IF 2 * use > 1
  THEN LET cellDelay == MulFP(random, (8 * FP) \div 10)
           cellProgress == Clamp(5 * (RoundDiv(progress * FP, AnimationDuration)
                                      - cellDelay), 0, FP)
       IN  MulFP(intensity, Smoothstep(cellProgress))
  ELSE intensity

\* float cellRandom = fract(sin(dot(s, vec2(12.9898, 78.233))) * 43758.5453):
\* a function of the cell.  For the cell (0, 0) the dot product and its sine
\* are 0 and so is the hash.  For any other cell the product with 43758.5453
\* turns the last bits of the sine into the whole fraction, and GLSL ES leaves
\* the accuracy of sin() and the width of a mediump float to the GPU: the
\* value is one of those the builds produce.  Listed per cell: a 32-bit run
\* of the shader, IEEE single arithmetic with a correctly rounded sine, and
\* 16-bit floats, in which the product has no fraction bits left.
CellRandom(s) ==
  CASE s = <<0, 0>> -> {0}
    [] s = <<FP \div 2, FP \div 3>> -> {3125, 391, 0}
    [] s = <<FP, (2 * FP) \div 3>> -> {9941, 9023, 0}

\* a draw evaluates digit() for a cell s: the uniforms as some frame left them,
\* the intensity as pattern() returned it, the hash of the cell as the GPU
\* computes it
DigitInit ==
  /\ ShaderUnmounted
  /\ uITime \in ShaderTimes
  /\ uMouse \in Pointers
  /\ uUseMouse \in {0, 1}
  /\ uMouseStrength \in MouseStrengths
  /\ uScale \in Scales
  /\ uUsePageLoadAnimation \in {0, 1}
  /\ uPageLoadProgress \in PageLoadProgresses
  /\ \E s \in Cells, i \in Intensities : \E c \in CellRandom(s) :
       frag = [s |-> s, random |-> c, pattern |-> i, intensity |-> i,
               stage |-> "pattern"]

\* the pointer block of digit()
DigitPointer ==
  /\ focus = "digit"
  /\ frag.stage = "pattern"
  /\ frag' = [frag EXCEPT
                !.intensity = PointerBlock(frag.intensity, frag.s, uMouse,
                                           uScale, uMouseStrength, uITime,
                                           uUseMouse),
                !.stage = "pointer"]
  /\ UNCHANGED tickerVars
  /\ UNCHANGED <<focus, now, rafSeq, sMounted, sProps, eff, gen, sInitFailed,
                 sClock, sLoop, sResources, sRaster, sPointer, uMouseStrength,
                 uScale, sSize, drawn, sEvents, sCleanups, sError>>

\* the page-load block of digit(); its result is the intensity that
\* step(0.1, intensity - f) compares
DigitFade ==
  /\ focus = "digit"
  /\ frag.stage = "pointer"
  /\ frag' = [frag EXCEPT
                !.intensity = PageLoadFade(frag.intensity, frag.random,
                                           uPageLoadProgress,
                                           uUsePageLoadAnimation),
                !.stage = "fade"]
  /\ UNCHANGED tickerVars
  /\ UNCHANGED <<focus, now, rafSeq, sMounted, sProps, eff, gen, sInitFailed,
                 sClock, sLoop, sResources, sRaster, sPointer, uMouseStrength,
                 uScale, sSize, drawn, sEvents, sCleanups, sError>>

DigitNext == DigitPointer \/ DigitFade

\* ----------------------------------------------------------- specifications
InitTicker ==
  /\ focus = "ticker"
  /\ now = MountTime
  /\ rafSeq = 1
  /\ TickerInit
  /\ ShaderIdle

InitShader ==
  /\ focus = "shader"
  /\ now = MountTime
  /\ rafSeq = 1
  /\ ShaderInit
  /\ TickerIdle

InitDigit ==
  /\ focus = "digit"
  /\ now = MountTime
  /\ rafSeq = 1
  /\ DigitInit
  /\ TickerIdle

Init == InitTicker \/ InitShader \/ InitDigit

Next == TickerNext \/ ShaderNext \/ DigitNext

\* the standalone ticker
SpecTicker == InitTicker /\ [][TickerNext]_vars

\* the shader effect
SpecShader == InitShader /\ [][ShaderNext]_vars

\* one evaluation of digit()
SpecDigit == InitDigit /\ [][DigitNext]_vars

\* any of them
Spec == Init /\ [][Next]_vars

\* ================================================================ claims

\* C1: after every measurement with one-pass width S > 0 and container width
\* C >= 0 the stored copyCount k is max(2, ceil(C / S) + 2): k - 2 is the least
\* number of tiles covering C, so k >= 2 and k * S >= C + S, and S = 200,
\* C = 500 gives k = 5; copyCount >= 2 in every state, also before the first
\* measurement and after observations of zero width.
C1_CopyCount ==
  /\ copyCount >= 2
  /\ tMeasured # <<>> =>
       LET c == tMeasured[1] * Sub
           s == tMeasured[2]
           k == copyCount
       IN  /\ (k - 2) * s >= c
           /\ (k - 3) * s < c
           /\ k * s >= c + s
           /\ (tMeasured = <<500, 200 * Sub>> => k = 5)

C1_Witness ==
  /\ tMeasured = <<500, 200 * Sub>>
  /\ copyCount = 5
  /\ sequenceWidth = 0
  /\ tEvents > 0

\* C2: every pending animate callback that scrolls (seqWidth S > 0) finds, and
\* every frame step leaves, the offset in [0, S), for positive and negative
\* velocities.
C2_WrapInvariant ==
  \A r \in tRaf : r.seqWidth > 0 => 0 <= offset /\ offset < r.seqWidth * Sub

C2_Witness ==
  /\ velocity < 0
  /\ rawOffset < 0
  /\ offset > 0
  /\ \E r \in tRaf : r.seqWidth > 0

\* C7 as stated: once the target has been held for frame deltas summing to at
\* least 5 * tau, the velocity is within 1% of the target, whatever the
\* starting velocity (taken for a nonzero target, where 1% of the target is a
\* positive tolerance).
C7_WithinOnePercentOfTarget ==
  heldMs >= FiveTau /\ effTarget # 0 =>
    100 * Abs(velocity - effTarget) <= Abs(effTarget)

\* C7 amended: once the target has been held for frame deltas summing to at
\* least 5 * tau, the distance of the velocity to the target is at most 1% of
\* the distance it had when the target changed.
C7_WithinOnePercentOfStart ==
  heldMs >= FiveTau =>
    100 * Abs(velocity - effTarget) <= Abs(velAtChange - effTarget)

C7_Witness ==
  /\ heldMs >= FiveTau
  /\ velAtChange > 0
  /\ effTarget < 0
  /\ velocity # effTarget

\* C8: targetVelocity is speed for direction 'left' and -speed for direction
\* 'right', for positive, zero and negative speed.
C8_TargetVelocity ==
  /\ direction = "left" => targetVelocity = speed * Sub
  /\ direction = "right" => targetVelocity = -(speed * Sub)
  /\ speed = 0 => targetVelocity = 0

C8_Witness ==
  /\ speed < 0
  /\ direction = "right"
  /\ targetVelocity > 0
  /\ tEvents > 0

\* C3: the first unpaused frame after paused frames writes the iTime of the
\* moment of pause (the pinned value the paused frames drew) plus timeScale
\* times its own wall-clock delta; the paused duration adds nothing.
C3_ResumeContinuity ==
  [][(/\ drawn' # drawn
      /\ drawn.paused
      /\ ~drawn'.paused
      /\ snapshot # 0)
     => drawn'.iTime = drawn.iTime + drawn'.timeScale * (drawn'.t - drawn.t)]_vars

\* C4: every frame run with the pause flag set draws the iTime saved by the
\* last unpaused frame, also after the effect was re-created, so iTime is the
\* same in all of them.
C4_PausedPinned ==
  drawn # NoDraw /\ drawn.paused =>
    /\ drawn.iTime = snapshot
    /\ frozenTime = snapshot

C4_Witness ==
  /\ drawn.paused
  /\ snapshot > 0
  /\ drawn.iTime = snapshot
  /\ drawn.iTime # Elapsed(drawn.t, timeOffset, drawn.timeScale)
  /\ sEvents > 0

\* C5: a draw made with the page-load animation enabled sees progress
\* clamp((t - start) / 2000, 0, 1), start being the timestamp of the first
\* frame run with the animation: it lies in [0, 1], is 1 from 2000 ms on, and
\* never decreases from one such draw to the next, also across re-creations
\* of the effect.
C5_ProgressValue ==
  drawn # NoDraw /\ drawn.pla =>
    LET e == drawn.t - firstFrameT
    IN  /\ firstFrameT > 0
        /\ drawn.progress >= 0
        /\ drawn.progress <= AnimationDuration
        /\ drawn.progress = Max(0, Min(e, AnimationDuration))
        /\ (e >= 2000 => drawn.progress = AnimationDuration)

C5_ProgressMonotone ==
  [][drawn # NoDraw /\ drawn.pla /\ drawn'.pla
     => drawn'.progress >= drawn.progress]_vars

C5_PageLoadProgress == []C5_ProgressValue /\ C5_ProgressMonotone

C5_Witness ==
  /\ drawn.pla
  /\ drawn.paused
  /\ drawn.progress = AnimationDuration
  /\ drawn.t - firstFrameT > 2000

\* C6: a draw made with the page-load animation disabled sees progress 1, and
\* a frame run with it disabled changes neither the uniform nor the start
\* timestamp.
C6_DisabledValue ==
  drawn # NoDraw /\ ~drawn.pla => drawn.progress = AnimationDuration

C6_DisabledFrame ==
  [][drawn' # drawn /\ ~drawn'.pla
     => /\ uPageLoadProgress' = uPageLoadProgress
        /\ loadAnimationStart' = loadAnimationStart]_vars

C6_PageLoadDisabled == []C6_DisabledValue /\ C6_DisabledFrame

C6_Witness ==
  /\ drawn # NoDraw
  /\ ~drawn.pla
  /\ drawn.progress = AnimationDuration
  /\ loadAnimationStart > 0

\* C9: after the unmount cleanup of either component nothing is scheduled: no
\* frame callback is pending, the rasterization interval is cleared, the
\* ResizeObservers are disconnected, the mousemove listener is removed and the
\* canvas is detached.
C9_NothingScheduled ==
  /\ focus = "ticker" /\ ~tMounted => tRaf = {} /\ ~tObserving
  /\ focus = "shader" /\ ~sMounted =>
       /\ sRaf = {}
       /\ ~intervalOn
       /\ ~sObserving
       /\ ~listenerOn
       /\ ~canvasAttached

C9_Witness ==
  focus = "shader" /\ ~sMounted /\ rafSeq > 2 /\ eff.mouse /\ drawn # NoDraw

\* C10: a second invocation of the cleanups raises no error and changes
\* nothing.
C10_TickerStable ==
  tCleanups = 1 /\ tCleanups' = 2 =>
    /\ UNCHANGED <<tMounted, tObserving, tRaf, tRafRef, lastTimestamp, offset,
                   velocity, transform, seqWidth, copyCount, rafSeq>>
    /\ ~tError'

C10_ShaderStable ==
  sCleanups = 1 /\ sCleanups' = 2 =>
    /\ UNCHANGED <<sMounted, sRaf, sRafRef, intervalOn, sObserving, listenerOn,
                   canvasAttached, textureLive, contextLost, inflight, uITime,
                   uPageLoadProgress, frozenTime, loadAnimationStart, rafSeq>>
    /\ ~sError'

C10_CleanupIdempotent == [][C10_TickerStable /\ C10_ShaderStable]_vars

C10_Witness == sCleanups = 2 /\ ~sError /\ drawn # NoDraw /\ ~canvasAttached

\* C11: the effect is torn down before it is set up again: whatever sequence
\* of configuration changes re-creates it, the host holds at most one
\* rasterization interval, ResizeObserver, mousemove listener, canvas in the
\* container, rendering context, overlay texture and pending frame callback,
\* and while the component is mounted exactly those of the running effect.
C11_TeardownBeforeReinit ==
  focus = "shader" =>
    /\ host.intervals <= 1
    /\ host.observers <= 1
    /\ host.listeners <= 1
    /\ host.canvases <= 1
    /\ host.contexts <= 1
    /\ host.textures <= 1
    /\ Cardinality(sRaf) <= 1
    /\ sMounted => host = HostAfterSetup(NoHost, eff)

C11_Witness ==
  /\ sMounted
  /\ gen = 3
  /\ drawn # NoDraw
  /\ host.intervals = 1
  /\ host.contexts = 1
  /\ host.listeners = 0

\* C12: a resize notification of the container runs resize() once: the
\* resolution uniform becomes (width, height, width / height) of the resized
\* canvas (the container's size as the callback measures it, times dpr), and exactly one rasterization pass is started in that step, either
\* loading its image or skipped for lack of a 2D context; the passes in flight
\* stay in flight and the 50 ms interval stays set, its ticks starting further
\* passes.
C12_ResolutionOfCanvas ==
  focus = "shader" /\ sMounted /\ notifiedSize = ctnSize =>
    /\ uResolution[1] = ctnSize[1] * dpr
    /\ uResolution[2] = ctnSize[2] * dpr
    /\ uResolution[3] = RoundDiv(uResolution[1] * FP, uResolution[2])

C12_OnePassPerResize ==
  [][notifiedSize' # notifiedSize /\ gen' = gen =>
       /\ uResolution' = <<ctnSize[1] * dpr, ctnSize[2] * dpr,
                           RoundDiv(ctnSize[1] * dpr * FP, ctnSize[2] * dpr)>>
       /\ passSeq' = passSeq + 1
       /\ inflight \subseteq inflight'
       /\ inflight' \ inflight \subseteq
            {[id |-> passSeq + 1, gen |-> gen, blank |-> logoHeight <= -20]}
       /\ (inflight' # inflight \/ lastFailed' = passSeq + 1)
       /\ intervalOn' = intervalOn
       /\ sObserving' = sObserving]_vars

C12_ResizeRasterizesOnce == []C12_ResolutionOfCanvas /\ C12_OnePassPerResize

C12_Witness ==
  /\ sMounted
  /\ ctnSize = <<400, 300>>
  /\ notifiedSize = ctnSize
  /\ uResolution = <<400 * dpr, 300 * dpr, 13333>>
  /\ drawn # NoDraw
  /\ gen = 1
  /\ passSeq = 2
  /\ intervalOn

\* C13: a rasterization pass of the running effect that fails (no 2D
\* context, or the image does not decode) raises no error, leaves the overlay
\* texture as it was, leaves the frame loop scheduled and the interval set, so
\* that a later tick rasterizes again.
C13_FailedTickSkipped ==
  [][lastFailed' # lastFailed /\ gen' = gen =>
       /\ texture' = texture
       /\ textureLive' = textureLive
       /\ sRaf' = sRaf
       /\ sRafRef' = sRafRef
       /\ intervalOn' = intervalOn
       /\ sMounted' = sMounted
       /\ sError' = sError
       /\ loadThrew' = loadThrew
       /\ sInitFailed' = sInitFailed]_vars

C13_Witness ==
  /\ sMounted
  /\ lastFailed > 0
  /\ \E p \in inflight : p.gen = gen /\ p.id > lastFailed
  /\ intervalOn
  /\ sRaf # {}

\* C14: when the host cannot give a rendering context, the effect body raises
\* no error.
C14_InitRaisesNoError == ~sInitFailed

\* C15: with pointer reactivity enabled and pointer strength 0 the pointer
\* block of digit() leaves the intensity exactly as pattern() gave it, for
\* every cell, pointer position, scale and time: the boost and the ripple
\* are both products with the strength.
C15_StrengthGates ==
  focus = "digit" /\ frag.stage = "pointer" /\ uUseMouse = 1
  /\ uMouseStrength = 0
    => frag.intensity = frag.pattern

C15_Witness ==
  /\ frag.stage = "pointer"
  /\ uUseMouse = 1
  /\ uMouseStrength = 0
  /\ frag.intensity = frag.pattern
  /\ Distance(frag.s, MouseWorld(uMouse, uScale)) = 0
  /\ uITime = 1800
  /\ Sin(-(uITime * 5)) # 0

\* C16: of two consecutive unpaused frames at t1 <= t2 the second writes
\* iTime(t1) + (t2 - t1) * timeScale, with the timeScale of the second frame,
\* also when timeScale changed in between, and stores it as the frozen
\* snapshot.
C16_ClockAccumulation ==
  [][(/\ drawn # NoDraw
      /\ drawn'.n # drawn.n
      /\ ~drawn.paused
      /\ ~drawn'.paused)
     => /\ drawn'.iTime - drawn.iTime = drawn'.timeScale * (drawn'.t - drawn.t)
        /\ frozenTime' = drawn'.iTime]_vars

\* C17: every frame callback issues exactly one draw call, which reads the
\* iTime, the page-load progress and the pointer position that this callback
\* wrote (or left) before it; no other step draws: not a resize, not a
\* rasterization tick, not an image load, not a re-creation of the effect.
C17_OneDrawPerFrame ==
  [][focus = "shader" =>
       IF now' # now
       THEN /\ drawn'.n = drawn.n + 1
            /\ drawn'.t = now'
            /\ drawn'.iTime = uITime'
            /\ drawn'.progress = uPageLoadProgress'
            /\ drawn'.mouse = uMouse'
            /\ drawn'.useMouse = uUseMouse'
       ELSE drawn' = drawn]_vars

C17_Witness ==
  /\ drawn.n >= 2
  /\ drawn.pla
  /\ drawn.react
  /\ drawn.mouse # <<Half, Half>>
  /\ drawn.progress > 0
  /\ passSeq > gen

\* C18: while a component is mounted exactly one frame callback of its loop
\* is pending between frames, and it is the one whose handle the ref holds,
\* also after the restarts caused by a change of seqWidth, of targetVelocity
\* or of the shader configuration.
C18_OnePending ==
  /\ focus = "ticker" /\ tMounted =>
       /\ Cardinality(tRaf) = 1
       /\ \A r \in tRaf : r.id = tRafRef
  /\ focus = "shader" /\ sMounted =>
       /\ Cardinality(sRaf) = 1
       /\ \A r \in sRaf : r.id = sRafRef

C18_Witness ==
  /\ focus = "ticker"
  /\ tMounted
  /\ effSeqWidth > 0
  /\ effTarget < 0
  /\ lastTimestamp # NULL
  /\ Cardinality(tRaf) = 1

\* C19: a frame run with pointer reactivity moves the smoothed position, on
\* each axis, to old + (raw - old) * 0.08, which lies between the old value
\* and the raw one; with raw positions in [0, 1] the smoothed position, 0.5
\* at the start, stays in [0, 1].
C19_InUnitSquare ==
  \A i \in {1, 2} :
    (mouse[i] >= 0 /\ mouse[i] <= FP) =>
      (smoothMouse[i] >= 0 /\ smoothMouse[i] <= FP)

C19_SmoothingStep ==
  [][drawn'.n # drawn.n /\ drawn'.react =>
       \A i \in {1, 2} :
         /\ smoothMouse'[i] =
              smoothMouse[i] + RoundDiv((mouse[i] - smoothMouse[i]) * 8, 100)
         /\ Min(smoothMouse[i], mouse[i]) <= smoothMouse'[i]
         /\ smoothMouse'[i] <= Max(smoothMouse[i], mouse[i])]_vars

C19_NoOvershoot == []C19_InUnitSquare /\ C19_SmoothingStep

C19_Witness ==
  /\ mouse = <<0, FP>>
  /\ smoothMouse[1] > 0
  /\ smoothMouse[1] < Half
  /\ smoothMouse[2] > Half
  /\ smoothMouse[2] < FP
  /\ drawn.mouse = smoothMouse
  /\ drawn.n >= 2

\* C20: while the running effect was set up with pointer reactivity disabled
\* no mousemove listener is registered and uUseMouse is 0, at every draw call
\* too, and no frame and no pointer event changes the raw position, the
\* smoothed position or uMouse.
C20_Disabled ==
  /\ focus = "shader" /\ sMounted /\ ~eff.mouse =>
       /\ ~listenerOn
       /\ host.listeners = 0
       /\ uUseMouse = 0
  /\ drawn # NoDraw /\ ~drawn.react => drawn.useMouse = 0

C20_Unchanged ==
  [][focus = "shader" /\ ~eff.mouse /\ ~eff'.mouse =>
       /\ mouse' = mouse
       /\ smoothMouse' = smoothMouse
       /\ uMouse' = uMouse]_vars

C20_TrackerInert == []C20_Disabled /\ C20_Unchanged

C20_Witness ==
  /\ sMounted
  /\ ~eff.mouse
  /\ Props = eff
  /\ gen = 2
  /\ passSeq = 2
  /\ sEvents = 2
  /\ mouse = <<Half, Half>>
  /\ drawn.n >= 2
  /\ ~drawn.react

\* C21: while seqWidth is 0 no step changes the offset or the translation of
\* the track, whatever frame callbacks and restarts run; a size observation
\* reporting zero sequence width changes neither seqWidth nor copyCount; the
\* offset and the translation leave 0 only after a measurement reported a
\* positive width, and only in a step of an effect that captured a positive
\* seqWidth.
C21_NothingBeforeWidth ==
  /\ seqWidth = 0 => effSeqWidth = 0 /\ \A r \in tRaf : r.seqWidth = 0
  /\ (offset # 0 \/ transform # 0 \/ rawOffset # 0) =>
       tMeasured # <<>> /\ seqWidth > 0

C21_NoTranslation ==
  [][focus = "ticker" /\ seqWidth = 0 =>
       offset' = offset /\ transform' = transform]_vars

C21_ZeroObservationIgnored ==
  [][<<containerWidth, sequenceWidth>>' # <<containerWidth, sequenceWidth>>
     /\ sequenceWidth' = 0 =>
       seqWidth' = seqWidth /\ copyCount' = copyCount]_vars

C21_DegenerateSizing ==
  []C21_NothingBeforeWidth /\ C21_NoTranslation /\ C21_ZeroObservationIgnored

C21_Witness ==
  /\ focus = "ticker"
  /\ tMounted
  /\ seqWidth = 0
  /\ sequenceWidth = 0
  /\ tEvents = 1
  /\ speed = DefaultLogoSpeed
  /\ direction = "left"
  /\ velocity > 0
  /\ heldMs > 250
  /\ offset = 0
  /\ transform = 0
  /\ copyCount = MIN_COPIES

C23_NoUseAfterRelease ==
  [][\A p \in inflight \ inflight' :
       p.id \notin urls' => p.gen = gen /\ textureLive]_vars

\* C24: when the animation effect is re-run with a new positive seqWidth, its
\* body re-wraps the offset into [0, new seqWidth) and rewrites the translation
\* to -offset, and every pending frame callback is one of the new effect; so
\* every frame callback uses the seqWidth of the running effect and starts from
\* an offset below it, and the translation of the track is -offset.
C24_TranslationIsOffset ==
  /\ transform = -offset
  /\ \A r \in tRaf :
       /\ r.seqWidth = effSeqWidth
       /\ r.seqWidth > 0 => 0 <= offset /\ offset < r.seqWidth * Sub

C24_RewrapOnRestart ==
  [][effSeqWidth' # effSeqWidth /\ effSeqWidth' > 0 =>
       /\ effSeqWidth' = seqWidth
       /\ offset' = Wrap(offset, effSeqWidth' * Sub)
       /\ 0 <= offset' /\ offset' < effSeqWidth' * Sub
       /\ transform' = -offset'
       /\ now' = now]_vars

C24_RewrapBeforeFrames == []C24_TranslationIsOffset /\ C24_RewrapOnRestart

C24_Witness ==
  /\ focus = "ticker"
  /\ tMounted
  /\ effSeqWidth = 151
  /\ lastTimestamp = NULL
  /\ rawOffset < 0
  /\ offset = rawOffset + 49 * Sub
  /\ transform = -offset

\* C25 as stated: every start or restart of the animation effect (change of
\* seqWidth or of targetVelocity) leaves the velocity and the offset as they
\* are.
C25_OffsetCarriesOver ==
  [][focus = "ticker"
     /\ <<effTarget, effNegZero, effSeqWidth>>' # <<effTarget, effNegZero, effSeqWidth>>
     => velocity' = velocity /\ offset' = offset]_vars

\* C25 amended: a restart of the animation effect leaves the velocity as it
\* is and the offset as it is modulo the new seqWidth (unchanged when seqWidth
\* did not change); the first frame callback after a start or restart has
\* delta 0 and changes neither velocity nor offset, however long after the
\* last frame before the restart it comes; every later frame applies the time
\* since the frame before it, which is never negative.
C25_RestartKeepsMotion ==
  [][focus = "ticker"
     /\ <<effTarget, effNegZero, effSeqWidth>>' # <<effTarget, effNegZero, effSeqWidth>>
     => /\ velocity' = velocity
        /\ lastTimestamp' = NULL
        /\ offset' = IF effSeqWidth' > 0
                     THEN Wrap(offset, effSeqWidth' * Sub) ELSE offset
        /\ effSeqWidth' = effSeqWidth => offset' = offset]_vars

C25_FirstFrameStill ==
  [][focus = "ticker" /\ now' # now /\ lastTimestamp = NULL
     => /\ velocity' = velocity
        /\ offset' = offset
        /\ transform' = transform
        /\ lastTimestamp' = now']_vars

C25_LaterFrames ==
  [][focus = "ticker" /\ now' # now /\ lastTimestamp # NULL
     => /\ now' - lastTimestamp >= 0
        /\ lastTimestamp' = now'
        /\ \A r \in tRaf :
             r.seqWidth > 0 =>
               offset' = Wrap(offset + RoundDiv(velocity' * (now' - lastTimestamp),
                                                MsPerSecond),
                              r.seqWidth * Sub)]_vars

C25_NoJumpOnRestart ==
  C25_RestartKeepsMotion /\ C25_FirstFrameStill /\ C25_LaterFrames

C25_Witness ==
  /\ focus = "ticker"
  /\ tMounted
  /\ effSeqWidth > 0
  /\ heldMs = 0
  /\ lastTimestamp = now
  /\ velocity > 0
  /\ velAtChange = velocity
  /\ effTarget < 0
  /\ offset > 0
  /\ rawOffset = offset
  /\ transform = -offset

\* C26: every object URL a rasterization pass created is revoked in the end,
\* whether its image decoded, failed to decode, or loaded after the teardown:
\* once the component is unmounted and no image is loading any more (nothing
\* of the component is left to run), no object URL is left unrevoked.
C26_EveryUrlRevoked ==
  focus = "shader" /\ ~sMounted /\ inflight = {} => urls = {}

====
